---- MODULE Spec2Model ----
(***************************************************************************)
(* A model of the `bitte` attribute macro (src/src/lib.rs): resolution of  *)
(* the Send/Sync directives into an AsyncBounds configuration, analysis of *)
(* a method's receiver, the rewriting of an `async fn` signature into one  *)
(* returning `impl Future<Output = R>`, and the four-way dispatch of the   *)
(* entry point over trait / impl block / function / trait method.          *)
(***************************************************************************)
EXTENDS Naturals, Sequences, FiniteSets, TLC

VARIABLES
    threads,    \* cfg!(feature = "threads"): the build-time default switch
    args,       \* the attribute's argument tokens (the directive list)
    input,      \* the annotated declaration, as handed to the macro
    pc,         \* position inside `bitte`
    config,     \* the resolved AsyncBounds, once line 118-127 has run
    tried,      \* the syn::parse attempts made so far, in order
    output      \* what `bitte` returned

vars == <<threads, args, input, pc, config, tried, output>>

(***************************************************************************)
(* Bounds of the model.                                                    *)
(***************************************************************************)
MaxDirectives == 2
MaxItems == 2

(***************************************************************************)
(* Sequences over S of length at most n.                                   *)
(***************************************************************************)
SeqUpTo(S, n) == UNION {[1..k -> S] : k \in 0..n}

(***************************************************************************)
(* Directives.  One argument token is an optional `?` and an identifier.   *)
(***************************************************************************)
CapabilityIdents == {"Send", "Sync", "Teleport"}

DirectiveTokens == [question : BOOLEAN, ident : CapabilityIdents]

DirectiveLists == SeqUpTo(DirectiveTokens, MaxDirectives)

\* enum AsyncBound { Send(bool), Sync(bool) }
AsyncBoundSend(b) == [variant |-> "Send", enabled |-> b]
AsyncBoundSync(b) == [variant |-> "Sync", enabled |-> b]
ParseErr == [variant |-> "Err", enabled |-> FALSE]

\* impl Parse for AsyncBound: `?` negates, then the identifier is matched.
AsyncBoundParse(tok) ==
    LET enabled == IF tok.question THEN FALSE ELSE TRUE
    IN  CASE tok.ident = "Send" -> AsyncBoundSend(enabled)
          [] tok.ident = "Sync" -> AsyncBoundSync(enabled)
          [] OTHER -> ParseErr

\* Fault variant of the default: both bounds on, whatever the feature.
AsyncBoundsDefault_AlwaysOn(feature) == [send |-> TRUE, sync |-> TRUE]

\* impl Default for AsyncBounds
AsyncBoundsDefault(feature) == [send |-> feature, sync |-> feature]

\* Fault variant of the fold: a capability keeps the value of the first directive
\* that names it.
RECURSIVE FoldBounds_FirstWins(_, _)
FoldBounds_FirstWins(cfg, parsed) ==
    IF parsed = <<>> THEN cfg
    ELSE LET arg == parsed[Len(parsed)]
             next == IF arg.variant = "Send"
                     THEN [cfg EXCEPT !.send = arg.enabled]
                     ELSE [cfg EXCEPT !.sync = arg.enabled]
         IN  FoldBounds_FirstWins(next, SubSeq(parsed, 1, Len(parsed) - 1))

\* The `for arg in parsed` loop of from_attribute: one assignment per directive,
\* in list order, onto the running configuration.
RECURSIVE FoldBounds(_, _)
FoldBounds(cfg, parsed) ==
    IF parsed = <<>> THEN cfg
    ELSE LET arg == Head(parsed)
             next == IF arg.variant = "Send"
                     THEN [cfg EXCEPT !.send = arg.enabled]
                     ELSE [cfg EXCEPT !.sync = arg.enabled]
         IN  FoldBounds(next, Tail(parsed))

\* Punctuated::<AsyncBound, Token![,]>::parse_terminated: every directive is parsed
\* before any is applied; the first failure fails the whole list.
ParseTerminated(toks) == [i \in 1..Len(toks) |-> AsyncBoundParse(toks[i])]

\* syn::Result<AsyncBounds>: Ok(config), or the error of the first bad directive.
ConfigOk(cfg) == [state |-> "ok", send |-> cfg.send, sync |-> cfg.sync]
ConfigErr == [state |-> "err", send |-> FALSE, sync |-> FALSE]
ConfigUnset == [state |-> "unset", send |-> FALSE, sync |-> FALSE]

\* Fault variant of from_attribute: directives that do not parse are dropped.
from_attribute_SkipsUnknown(feature, toks) ==
    LET parsed == ParseTerminated(toks)
        known == SelectSeq(parsed, LAMBDA b : b # ParseErr)
    IN  ConfigOk(FoldBounds(AsyncBoundsDefault(feature), known))

\* AsyncBounds::from_attribute
from_attribute(feature, toks) ==
    LET parsed == ParseTerminated(toks)
    IN  IF \E i \in 1..Len(parsed) : parsed[i] = ParseErr
        THEN ConfigErr
        ELSE ConfigOk(FoldBounds(AsyncBoundsDefault(feature), parsed))

\* Lines 118-127 of `bitte`: an empty argument stream takes the default directly.
ResolveArgs(feature, toks) ==
    IF toks = <<>> THEN ConfigOk(AsyncBoundsDefault(feature))
    ELSE from_attribute(feature, toks)

(***************************************************************************)
(* Types, arguments, signatures.                                           *)
(***************************************************************************)
\* A generic argument that is a type path of one identifier.
GenericTy(id) == [kind |-> "Type", tag |-> "Path", ident |-> id]

TypePath(segments, generics) ==
    [tag |-> "Path", mutability |-> FALSE, segments |-> segments, generics |-> generics]
TypeReference(mutable) ==
    [tag |-> "Reference", mutability |-> mutable, segments |-> <<>>, generics |-> <<>>]
TypePtr ==
    [tag |-> "Ptr", mutability |-> FALSE, segments |-> <<>>, generics |-> <<>>]

SelfValue == TypePath(<<"Self">>, <<>>)                          \* self
RefSelf == TypeReference(FALSE)                                   \* &self
RefMutSelf == TypeReference(TRUE)                                 \* &mut self
ArcSelf == TypePath(<<"Arc">>, <<GenericTy("Self")>>)             \* self: Arc<Self>
StdArcSelf == TypePath(<<"std", "sync", "Arc">>, <<GenericTy("Self")>>)
ArcOther == TypePath(<<"Arc">>, <<GenericTy("Other")>>)           \* self: Arc<Other>
BoxSelf == TypePath(<<"Box">>, <<GenericTy("Self")>>)             \* self: Box<Self>
PtrSelf == TypePtr                                                \* self: *const Self

ReceiverTypes ==
    {SelfValue, RefSelf, RefMutSelf, ArcSelf, StdArcSelf, ArcOther, BoxSelf, PtrSelf}

FnArgReceiver(ty) == [kind |-> "Receiver", ty |-> ty]
FnArgTyped == [kind |-> "Typed", ty |-> TypePath(<<"u32">>, <<>>)]

\* The parameter lists of the model: none, a typed first parameter, or a receiver.
InputLists == {<<>>, <<FnArgTyped>>} \cup {<<FnArgReceiver(t)>> : t \in ReceiverTypes}

\* struct ReceiverBounds
ReceiverBounds(send, sync) == [needs_send |-> send, needs_sync |-> sync]

\* Fault variant of the analysis: Arc<Self> is not recognised and is treated as any
\* other path.
analyze_receiver_ArcUnrecognised(inputs) ==
    IF inputs # <<>> /\ Head(inputs).kind = "Receiver"
    THEN LET ty == Head(inputs).ty
         IN  CASE ty.tag = "Path" -> ReceiverBounds(FALSE, FALSE)
               [] ty.tag = "Reference" /\ ~ty.mutability -> ReceiverBounds(FALSE, TRUE)
               [] OTHER -> ReceiverBounds(TRUE, FALSE)
    ELSE ReceiverBounds(FALSE, FALSE)

\* Fault variant of the analysis: `&self` is taken to need nothing.
analyze_receiver_RefUnbounded(inputs) ==
    IF inputs # <<>> /\ Head(inputs).kind = "Receiver"
    THEN LET ty == Head(inputs).ty
         IN  CASE ty.tag = "Path" ->
                    IF /\ ty.segments # <<>>
                       /\ ty.segments[Len(ty.segments)] = "Arc"
                       /\ Len(ty.generics) = 1
                       /\ ty.generics[1].kind = "Type"
                       /\ ty.generics[1].tag = "Path"
                       /\ ty.generics[1].ident = "Self"
                    THEN ReceiverBounds(TRUE, TRUE)
                    ELSE ReceiverBounds(FALSE, FALSE)
               [] ty.tag = "Reference" /\ ~ty.mutability ->
                    ReceiverBounds(FALSE, FALSE)
               [] OTHER ->
                    ReceiverBounds(TRUE, FALSE)
    ELSE ReceiverBounds(FALSE, FALSE)

\* fn analyze_receiver.  The Type::Path arm returns only for Arc<Self>; any other
\* path leaves the match without returning and reaches the final value.
analyze_receiver(inputs) ==
    IF inputs # <<>> /\ Head(inputs).kind = "Receiver"
    THEN LET ty == Head(inputs).ty
         IN  CASE ty.tag = "Path" ->
                    IF /\ ty.segments # <<>>
                       /\ ty.segments[Len(ty.segments)] = "Arc"
                       /\ Len(ty.generics) = 1
                       /\ ty.generics[1].kind = "Type"
                       /\ ty.generics[1].tag = "Path"
                       /\ ty.generics[1].ident = "Self"
                    THEN ReceiverBounds(TRUE, TRUE)
                    ELSE ReceiverBounds(FALSE, FALSE)
               [] ty.tag = "Reference" /\ ~ty.mutability ->
                    ReceiverBounds(FALSE, TRUE)
               [] OTHER ->
                    ReceiverBounds(TRUE, FALSE)
    ELSE ReceiverBounds(FALSE, FALSE)

\* Return types: `-> ty`, nothing, or (after rewriting) `-> impl bounds`.
ReturnDefault == [kind |-> "Default", name |-> "", bounds |-> <<>>]
ReturnNamed(n) == [kind |-> "Type", name |-> n, bounds |-> <<>>]
ReturnImplTrait(bounds) == [kind |-> "ImplTrait", name |-> "", bounds |-> bounds]

FutureBound(out) == [trait |-> "Future", output |-> out]
SendBound == [trait |-> "Send", output |-> ""]

SelfSync == "Self: Sync"

\* generics: the parameter list and the optional where clause.
Generics(params, present, predicates) ==
    [params |-> params, where_present |-> present, predicates |-> predicates]

GenericsSet ==
    { Generics(<<>>, FALSE, <<>>),
      Generics(<<"T">>, TRUE, <<"T: Clone">>),
      Generics(<<>>, TRUE, <<SelfSync>>) }

Signature(asyncness, ident, generics, inputs, out) ==
    [asyncness |-> asyncness, ident |-> ident, generics |-> generics,
     inputs |-> inputs, output |-> out]

\* Fault variant: the constraint is added only when the where clause is absent.
add_self_sync_bound_OnlyWhenAbsent(sig) ==
    IF ~sig.generics.where_present
    THEN [sig EXCEPT !.generics = [@ EXCEPT !.where_present = TRUE,
                                            !.predicates = <<SelfSync>>]]
    ELSE sig

\* fn add_self_sync_bound: an absent where clause is created, then the predicate is
\* pushed at the end.
add_self_sync_bound(sig) ==
    LET g0 == sig.generics
        g1 == IF ~g0.where_present THEN [g0 EXCEPT !.where_present = TRUE] ELSE g0
    IN  [sig EXCEPT !.generics = [g1 EXCEPT !.predicates = Append(@, SelfSync)]]

\* Fault variant of the signature rewriter: the receiver analysis is not consulted,
\* so the bounds are those of the configuration alone.
SignatureDesugarAsync_ConfigOnly(sig, cfg) ==
    LET output_type == IF sig.output.kind = "Default" THEN "()" ELSE sig.output.name
        bounds == <<FutureBound(output_type)>>
                  \o (IF cfg.send THEN <<SendBound>> ELSE <<>>)
        s1 == [sig EXCEPT !.asyncness = FALSE, !.output = ReturnImplTrait(bounds)]
    IN  IF cfg.sync THEN add_self_sync_bound(s1) ELSE s1

\* Fault variant of the signature rewriter: the declared return type is not carried
\* into the future; its output is always the unit type.
SignatureDesugarAsync_UnitOutput(sig, cfg) ==
    LET receiver_bounds == analyze_receiver(sig.inputs)
        bounds == <<FutureBound("()")>>
                  \o (IF cfg.send \/ receiver_bounds.needs_send
                      THEN <<SendBound>> ELSE <<>>)
        s1 == [sig EXCEPT !.asyncness = FALSE, !.output = ReturnImplTrait(bounds)]
    IN  IF cfg.sync \/ receiver_bounds.needs_sync
        THEN add_self_sync_bound(s1)
        ELSE s1

\* Fault variant of the signature rewriter: the `async` keyword is left on the
\* rewritten signature.
SignatureDesugarAsync_KeepsAsync(sig, cfg) ==
    LET receiver_bounds == analyze_receiver(sig.inputs)
        output_type == IF sig.output.kind = "Default" THEN "()" ELSE sig.output.name
        bounds == <<FutureBound(output_type)>>
                  \o (IF cfg.send \/ receiver_bounds.needs_send
                      THEN <<SendBound>> ELSE <<>>)
        s1 == [sig EXCEPT !.output = ReturnImplTrait(bounds)]
    IN  IF cfg.sync \/ receiver_bounds.needs_sync
        THEN add_self_sync_bound(s1)
        ELSE s1

\* impl DesugarAsync for Signature
SignatureDesugarAsync(sig, cfg) ==
    LET output_type == IF sig.output.kind = "Default" THEN "()" ELSE sig.output.name
        receiver_bounds == analyze_receiver(sig.inputs)
        bounds == <<FutureBound(output_type)>>
                  \o (IF cfg.send \/ receiver_bounds.needs_send
                      THEN <<SendBound>> ELSE <<>>)
        s1 == [sig EXCEPT !.asyncness = FALSE, !.output = ReturnImplTrait(bounds)]
    IN  IF cfg.sync \/ receiver_bounds.needs_sync
        THEN add_self_sync_bound(s1)
        ELSE s1

(***************************************************************************)
(* Blocks, attributes, functions, items.                                   *)
(***************************************************************************)
\* A statement: one of the user's own, or the `async move { ... }` expression the
\* macro builds around a whole block.
Stmt(text) == [kind |-> "Expr", text |-> text, inner |-> <<>>]
AsyncMove(block) == [kind |-> "AsyncMove", text |-> "", inner |-> block]

\* Option<Block>: a method declared with `;` has none.
NoBlock == [present |-> FALSE, stmts |-> <<>>]
Block(stmts) == [present |-> TRUE, stmts |-> stmts]
UserBody == Block(<<Stmt("return X")>>)

\* parse_quote! { { async move #body } }
WrapAsyncMove(block) == Block(<<AsyncMove(block.stmts)>>)

\* An attribute: its name, the lints of an #[allow(...)], and the directives of a
\* #[bitte(...)] that a method carries itself.
Attr(name, lints, directives) ==
    [name |-> name, lints |-> lints, directives |-> directives]

MustUse == Attr("must_use", <<>>, <<>>)
\* #[allow(clippy::type_complexity, clippy::type_repetition_in_bounds)]
AllowNarrow == Attr("allow", <<"type_complexity", "type_repetition_in_bounds">>, <<>>)
\* the seven-lint #[allow(...)] of methods that carry a body
AllowWide ==
    Attr("allow",
         <<"async_yields_async", "let_unit_value", "no_effect_underscore_binding",
           "shadow_same", "type_complexity", "type_repetition_in_bounds",
           "used_underscore_binding">>,
         <<>>)

\* A function-like node: ItemFn, ImplItemFn, TraitItemFn (whose `default` is block),
\* or, with tag "Other", a trait/impl item that is not a function.
FnNode(tag, vis, attrs, sig, block) ==
    [tag |-> tag, vis |-> vis, attrs |-> attrs, sig |-> sig, block |-> block]

\* impl DesugarAsync for ItemFn: the block is left as it is.
ItemFnDesugarAsync(f, cfg) ==
    IF f.sig.asyncness
    THEN [f EXCEPT !.sig = SignatureDesugarAsync(@, cfg),
                   !.attrs = @ \o <<MustUse, AllowNarrow>>]
    ELSE f

\* impl DesugarAsync for ImplItemFn
ImplItemFnDesugarAsync(f, cfg) ==
    IF f.sig.asyncness
    THEN [f EXCEPT !.sig = SignatureDesugarAsync(@, cfg),
                   !.block = WrapAsyncMove(@),
                   !.attrs = @ \o <<MustUse, AllowWide>>]
    ELSE f

\* impl DesugarAsync for TraitItemFn
TraitItemFnDesugarAsync(f, cfg) ==
    IF f.sig.asyncness
    THEN [f EXCEPT !.sig = SignatureDesugarAsync(@, cfg),
                   !.attrs = @ \o <<MustUse,
                                    IF f.block.present THEN AllowWide ELSE AllowNarrow>>,
                   !.block = IF @.present THEN WrapAsyncMove(@) ELSE @]
    ELSE f

\* A declaration as the macro receives it: a trait or impl block with its items, a
\* function or method (items empty), or something else, such as a struct.
Decl(form, fn, items) == [form |-> form, fn |-> fn, items |-> items]

NoSig == Signature(FALSE, "", Generics(<<>>, FALSE, <<>>), <<>>, ReturnDefault)
NoFn == FnNode("None", "", <<>>, NoSig, NoBlock)
NoDecl == Decl("none", NoFn, <<>>)

\* Fault variant of the trait walk: every function item has its signature rewritten,
\* `async` or not.
ItemTraitDesugarAsync_Unguarded(d, cfg) ==
    [d EXCEPT !.items =
        [i \in 1..Len(d.items) |->
            IF d.items[i].tag = "Fn"
            THEN [d.items[i] EXCEPT !.sig = SignatureDesugarAsync(@, cfg)]
            ELSE d.items[i]]]

\* impl DesugarAsync for ItemTrait
ItemTraitDesugarAsync(d, cfg) ==
    [d EXCEPT !.items =
        [i \in 1..Len(d.items) |->
            IF d.items[i].tag = "Fn" /\ d.items[i].sig.asyncness
            THEN TraitItemFnDesugarAsync(d.items[i], cfg)
            ELSE d.items[i]]]

\* Fault variant of the impl walk: the walk ends at the first `async fn` it rewrote.
ItemImplDesugarAsync_StopsAfterFirst(d, cfg) ==
    LET deferred == { j \in 1..Len(d.items) :
                        d.items[j].tag = "Fn" /\ d.items[j].sig.asyncness }
    IN  [d EXCEPT !.items =
            [i \in 1..Len(d.items) |->
                IF i \in deferred /\ \A j \in deferred : i <= j
                THEN ImplItemFnDesugarAsync(d.items[i], cfg)
                ELSE d.items[i]]]

\* impl DesugarAsync for ItemImpl
ItemImplDesugarAsync(d, cfg) ==
    [d EXCEPT !.items =
        [i \in 1..Len(d.items) |->
            IF d.items[i].tag = "Fn" /\ d.items[i].sig.asyncness
            THEN ImplItemFnDesugarAsync(d.items[i], cfg)
            ELSE d.items[i]]]

\* syn::parse::<ItemTrait>, ::<ItemImpl>, ::<ItemFn>, ::<TraitItemFn> on the input
\* tokens.  ItemFn needs a body and accepts a visibility; TraitItemFn accepts a
\* missing body and no visibility.  A function with a body and no visibility is
\* both.
ParsesAsItemTrait(d) == d.form = "trait"
ParsesAsItemImpl(d) == d.form = "impl"
ParsesAsItemFn(d) == d.form = "fn" /\ d.fn.block.present
ParsesAsTraitItemFn(d) == d.form = "fn" /\ d.fn.vis = ""

(***************************************************************************)
(* The inputs the model draws from.                                        *)
(***************************************************************************)
ReturnTypes == {ReturnDefault, ReturnNamed("u32")}

SignaturesOver(inputLists, genericsSet) ==
    { Signature(a, "method", g, ins, out) :
        a \in BOOLEAN, g \in genericsSet, ins \in inputLists, out \in ReturnTypes }

\* Every signature of the model: lone functions and methods range over all of them.
Signatures == SignaturesOver(InputLists, GenericsSet)

\* The signatures of methods inside a trait or impl block.
ItemInputLists == {<<>>, <<FnArgReceiver(RefSelf)>>, <<FnArgReceiver(ArcSelf)>>}
ItemSignatures ==
    { Signature(a, "method", Generics(<<>>, FALSE, <<>>), ins, ReturnNamed("u32")) :
        a \in BOOLEAN, ins \in ItemInputLists }

\* An associated type or constant: an item that is not a function.
OtherItem == FnNode("Other", "", <<>>, NoSig, NoBlock)

TraitItems ==
    {OtherItem} \cup
    { FnNode("Fn", "", <<>>, sig, b) : sig \in ItemSignatures, b \in {NoBlock, UserBody} }

ImplItems ==
    {OtherItem} \cup { FnNode("Fn", "", <<>>, sig, UserBody) : sig \in ItemSignatures }

FnDecls ==
    { Decl("fn", FnNode("Fn", vis, <<>>, sig, b), <<>>) :
        vis \in {"", "pub"}, sig \in Signatures, b \in {NoBlock, UserBody} }

StructDecl == Decl("struct", NoFn, <<>>)

Declarations ==
    { Decl("trait", NoFn, items) : items \in SeqUpTo(TraitItems, MaxItems) }
    \cup { Decl("impl", NoFn, items) : items \in SeqUpTo(ImplItems, MaxItems) }
    \cup FnDecls
    \cup {StructDecl}

(***************************************************************************)
(* The entry point, `bitte`, step by step.                                 *)
(***************************************************************************)
Pending == [status |-> "pending", by |-> "", decl |-> NoDecl]
Rewritten(by, d) == [status |-> "rewritten", by |-> by, decl |-> d]
\* e.to_compile_error(): a compile_error! invocation and nothing of the input.
ConfigError == [status |-> "ConfigError", by |-> "", decl |-> NoDecl]
ParseError == [status |-> "ParseError", by |-> "", decl |-> NoDecl]

Init ==
    /\ threads \in BOOLEAN
    /\ args \in DirectiveLists
    /\ input \in Declarations
    /\ pc = "config"
    /\ config = ConfigUnset
    /\ tried = <<>>
    /\ output = Pending

\* Lines 118-127: resolve the configuration, or return the directive error.
ResolveConfig ==
    /\ pc = "config"
    /\ LET r == ResolveArgs(threads, args)
       IN  IF r.state = "err"
           THEN /\ output' = ConfigError
                /\ pc' = "done"
                /\ config' = config
           ELSE /\ config' = r
                /\ pc' = "trait"
                /\ output' = output
    /\ UNCHANGED <<threads, args, input, tried>>

\* Lines 130-132
TryItemTrait ==
    /\ pc = "trait"
    /\ tried' = Append(tried, "ItemTrait")
    /\ IF ParsesAsItemTrait(input)
       THEN /\ output' = Rewritten("ItemTrait", ItemTraitDesugarAsync(input, config))
            /\ pc' = "done"
       ELSE /\ pc' = "impl"
            /\ output' = output
    /\ UNCHANGED <<threads, args, input, config>>

\* Fault variant of the second attempt: on failure the trait-method attempt comes
\* next, ahead of the function attempt.
TryItemImpl_ThenTraitItemFn ==
    /\ pc = "impl"
    /\ tried' = Append(tried, "ItemImpl")
    /\ IF ParsesAsItemImpl(input)
       THEN /\ output' = Rewritten("ItemImpl", ItemImplDesugarAsync(input, config))
            /\ pc' = "done"
       ELSE /\ pc' = "trait_fn"
            /\ output' = output
    /\ UNCHANGED <<threads, args, input, config>>

\* Lines 135-137
TryItemImpl ==
    /\ pc = "impl"
    /\ tried' = Append(tried, "ItemImpl")
    /\ IF ParsesAsItemImpl(input)
       THEN /\ output' = Rewritten("ItemImpl", ItemImplDesugarAsync(input, config))
            /\ pc' = "done"
       ELSE /\ pc' = "fn"
            /\ output' = output
    /\ UNCHANGED <<threads, args, input, config>>

\* Lines 140-142
TryItemFn ==
    /\ pc = "fn"
    /\ tried' = Append(tried, "ItemFn")
    /\ IF ParsesAsItemFn(input)
       THEN /\ output' = Rewritten("ItemFn",
                             [input EXCEPT !.fn = ItemFnDesugarAsync(@, config)])
            /\ pc' = "done"
       ELSE /\ pc' = "trait_fn"
            /\ output' = output
    /\ UNCHANGED <<threads, args, input, config>>

\* Fault variant of the last attempt: the method is rewritten, yet the error that
\* follows the four attempts is what is returned.
TryTraitItemFn_FallsThrough ==
    /\ pc = "trait_fn"
    /\ tried' = Append(tried, "TraitItemFn")
    /\ pc' = "no_match"
    /\ output' = output
    /\ UNCHANGED <<threads, args, input, config>>

\* Lines 145-147
TryTraitItemFn ==
    /\ pc = "trait_fn"
    /\ tried' = Append(tried, "TraitItemFn")
    /\ IF ParsesAsTraitItemFn(input)
       THEN /\ output' = Rewritten("TraitItemFn",
                             [input EXCEPT !.fn = TraitItemFnDesugarAsync(@, config)])
            /\ pc' = "done"
       ELSE /\ pc' = "no_match"
            /\ output' = output
    /\ UNCHANGED <<threads, args, input, config>>

\* Lines 149-154
NoMatch ==
    /\ pc = "no_match"
    /\ output' = ParseError
    /\ pc' = "done"
    /\ UNCHANGED <<threads, args, input, config, tried>>

Next ==
    \/ ResolveConfig
    \/ TryItemTrait
    \/ TryItemImpl
    \/ TryItemFn
    \/ TryTraitItemFn
    \/ NoMatch

Spec == Init /\ [][Next]_vars

(***************************************************************************)
(* `bitte` as a function of the feature, the arguments and the input: what *)
(* one invocation returns.                                                 *)
(***************************************************************************)
bitte(feature, toks, d) ==
    LET cfg == ResolveArgs(feature, toks)
    IN  IF cfg.state = "err" THEN ConfigError
        ELSE IF ParsesAsItemTrait(d)
             THEN Rewritten("ItemTrait", ItemTraitDesugarAsync(d, cfg))
        ELSE IF ParsesAsItemImpl(d)
             THEN Rewritten("ItemImpl", ItemImplDesugarAsync(d, cfg))
        ELSE IF ParsesAsItemFn(d)
             THEN Rewritten("ItemFn", [d EXCEPT !.fn = ItemFnDesugarAsync(@, cfg)])
        ELSE IF ParsesAsTraitItemFn(d)
             THEN Rewritten("TraitItemFn",
                            [d EXCEPT !.fn = TraitItemFnDesugarAsync(@, cfg)])
        ELSE ParseError

(***************************************************************************)
(* A trait under #[bitte(..)] whose methods carry a #[bitte(..)] of their  *)
(* own.  The attribute on the trait is expanded first, on the trait as     *)
(* written, the methods' attributes still in place; each attribute left on *)
(* a method of the result is then expanded, on that method alone.          *)
(***************************************************************************)
\* #[bitte], #[bitte(Send)], #[bitte(?Send, ?Sync)] on a method
OwnDirectiveLists ==
    { <<>>,
      <<[question |-> FALSE, ident |-> "Send"]>>,
      <<[question |-> TRUE, ident |-> "Send"], [question |-> TRUE, ident |-> "Sync"]>> }

BitteAttr(directives) == Attr("bitte", <<>>, directives)

AttributedItems ==
    { FnNode("Fn", "", <<BitteAttr(ds)>>, sig, b) :
        ds \in OwnDirectiveLists, sig \in ItemSignatures, b \in {NoBlock, UserBody} }

AttributedTraits ==
    { Decl("trait", NoFn, items) : items \in SeqUpTo(AttributedItems, MaxItems) }

\* The positions of the attributes named bitte among attrs.
BitteAttrsOf(attrs) == { k \in 1..Len(attrs) : attrs[k].name = "bitte" }

FirstBitteAttr(attrs) ==
    CHOOSE k \in BitteAttrsOf(attrs) : \A j \in BitteAttrsOf(attrs) : k <= j

\* attrs without its k-th element: the invoking attribute is not part of the input.
WithoutAttr(attrs, k) == SubSeq(attrs, 1, k - 1) \o SubSeq(attrs, k + 1, Len(attrs))

\* The items of the output that still carry a bitte attribute.
PendingItems ==
    { i \in 1..Len(output.decl.items) :
        BitteAttrsOf(output.decl.items[i].attrs) # {} }

InitNested ==
    /\ threads \in BOOLEAN
    /\ args \in DirectiveLists
    /\ input \in AttributedTraits
    /\ pc = "config"
    /\ config = ConfigUnset
    /\ tried = <<>>
    /\ output = Pending

\* The expansion of the attribute of the first method that still has one: `bitte`
\* is invoked with that attribute's directives on the method without the attribute,
\* and what it returns takes the method's place.
ExpandMethodAttribute ==
    /\ pc = "done"
    /\ output.status = "rewritten"
    /\ PendingItems # {}
    /\ LET i == CHOOSE n \in PendingItems : \A m \in PendingItems : n <= m
           item == output.decl.items[i]
           k == FirstBitteAttr(item.attrs)
           method == [item EXCEPT !.attrs = WithoutAttr(@, k)]
           r == bitte(threads, item.attrs[k].directives, Decl("fn", method, <<>>))
       IN  output' = IF r.status = "rewritten"
                     THEN [output EXCEPT !.decl.items[i] = r.decl.fn]
                     ELSE r
    /\ UNCHANGED <<threads, args, input, pc, config, tried>>

NextNested ==
    \/ ResolveConfig
    \/ TryItemTrait
    \/ ExpandMethodAttribute

SpecNested == InitNested /\ [][NextNested]_vars

(***************************************************************************)
(* Re-application.  The declaration a successful invocation returned is    *)
(* given to `bitte` once more, under any argument list whose directives    *)
(* all name a known capability.  `input` becomes the declaration given to  *)
(* the second invocation, `args`, `config` and `tried` describe the second *)
(* invocation, and `output` is what it returns.                            *)
(***************************************************************************)
ValidDirectiveLists ==
    { toks \in DirectiveLists : \A i \in 1..Len(toks) : toks[i].ident \in {"Send", "Sync"} }

\* The item forms the entry point attempted on `d`, in order, up to the first
\* that parsed.
Attempts(d) ==
    IF ParsesAsItemTrait(d) THEN <<"ItemTrait">>
    ELSE IF ParsesAsItemImpl(d) THEN <<"ItemTrait", "ItemImpl">>
    ELSE IF ParsesAsItemFn(d) THEN <<"ItemTrait", "ItemImpl", "ItemFn">>
    ELSE <<"ItemTrait", "ItemImpl", "ItemFn", "TraitItemFn">>

Reapply ==
    /\ pc = "done"
    /\ output.status = "rewritten"
    /\ \E toks \in ValidDirectiveLists :
          /\ args' = toks
          /\ config' = ResolveArgs(threads, toks)
          /\ input' = output.decl
          /\ tried' = Attempts(output.decl)
          /\ output' = bitte(threads, toks, output.decl)
    /\ pc' = "reapplied"
    /\ UNCHANGED threads

NextTwice ==
    \/ Next
    \/ Reapply

SpecTwice == Init /\ [][NextTwice]_vars

(***************************************************************************)
(* Vocabulary of the properties.                                           *)
(***************************************************************************)
Finished == pc = "done"
Succeeded == Finished /\ output.status = "rewritten"

\* The functions and methods of the input, each with what the output holds in its
\* place: the items of a trait or impl block by position, or the lone function.
MethodPairs ==
    IF input.form \in {"trait", "impl"}
    THEN { [before |-> input.items[i], after |-> output.decl.items[i], at |-> i] :
             i \in { j \in 1..Len(input.items) : input.items[j].tag = "Fn" } }
    ELSE { [before |-> input.fn, after |-> output.decl.fn, at |-> 0] }

\* Those that were `async fn` on input.
DeferredPairs == { p \in MethodPairs : p.before.sig.asyncness }

\* The return type is `impl Future<...> + Send`.
HasSendBound(sig) ==
    /\ sig.output.kind = "ImplTrait"
    /\ \E i \in 1..Len(sig.output.bounds) : sig.output.bounds[i] = SendBound

\* The rewrite put `Self: Sync` at the end of the where clause.
GainedSelfSync(p) ==
    /\ p.after.sig.generics.where_present
    /\ p.after.sig.generics.predicates =
           Append(p.before.sig.generics.predicates, SelfSync)

\* The where clause is as it was.
SameWhere(p) == p.after.sig.generics = p.before.sig.generics

ReceiverOf(sig) ==
    IF sig.inputs # <<>> /\ Head(sig.inputs).kind = "Receiver"
    THEN Head(sig.inputs).ty
    ELSE TypePath(<<>>, <<>>)
HasReceiver(sig) == sig.inputs # <<>> /\ Head(sig.inputs).kind = "Receiver"

\* self: Arc<Self>, under either spelling of Arc
IsSharedOwned(sig) == HasReceiver(sig) /\ ReceiverOf(sig) \in {ArcSelf, StdArcSelf}
\* &self
IsBorrowedImmutable(sig) == HasReceiver(sig) /\ ReceiverOf(sig) = RefSelf

(***************************************************************************)
(* C1.  A rewritten signature carries the Send bound exactly when the      *)
(* resolved configuration asks for it or the receiver analysis does, and   *)
(* gains the `Self: Sync` constraint exactly when the resolved             *)
(* configuration asks for it or the receiver analysis does; with no        *)
(* directives and the threads feature on, every async method gets both.    *)
(***************************************************************************)
C1_BoundsAreConfigOrInferred ==
    Succeeded =>
        \A p \in DeferredPairs :
            LET rb == analyze_receiver(p.before.sig.inputs)
            IN  /\ HasSendBound(p.after.sig) <=> (config.send \/ rb.needs_send)
                /\ GainedSelfSync(p) <=> (config.sync \/ rb.needs_sync)
                /\ ~GainedSelfSync(p) => SameWhere(p)
                /\ (args = <<>> /\ threads) =>
                       (HasSendBound(p.after.sig) /\ GainedSelfSync(p))

\* A directive list that disables both, a receiver that needs both: both are there.
C1_Witness ==
    /\ Succeeded
    /\ ~config.send /\ ~config.sync
    /\ \E p \in DeferredPairs :
          /\ analyze_receiver(p.before.sig.inputs) = ReceiverBounds(TRUE, TRUE)
          /\ HasSendBound(p.after.sig)
          /\ GainedSelfSync(p)

(***************************************************************************)
(* C2.  An async method whose receiver is `self: Arc<Self>` is rewritten   *)
(* with both the Send bound and the `Self: Sync` constraint, whatever the  *)
(* directives and whatever the threads feature.                            *)
(***************************************************************************)
C2_ArcSelfAlwaysBoth ==
    Succeeded =>
        \A p \in DeferredPairs :
            IsSharedOwned(p.before.sig) =>
                (HasSendBound(p.after.sig) /\ GainedSelfSync(p))

\* #[bitte(?Send, ?Sync)] with the feature off, on a method taking Arc<Self>.
C2_Witness ==
    /\ Succeeded
    /\ ~threads
    /\ Len(args) = 2 /\ \A i \in 1..2 : args[i].question
    /\ ~config.send /\ ~config.sync
    /\ \E p \in DeferredPairs :
          /\ IsSharedOwned(p.before.sig)
          /\ HasSendBound(p.after.sig)
          /\ GainedSelfSync(p)

(***************************************************************************)
(* C3.  The receiver analysis answers needs_send = true, needs_sync =      *)
(* false for every receiver that is neither Arc<Self> nor `&self`: plain   *)
(* `self`, `&mut self`, and any other typed receiver.  (Stated as claimed; *)
(* the code answers false/false for `self` and for typed path receivers.)  *)
(***************************************************************************)
C3_OtherReceiversNeedSendOnly ==
    Succeeded =>
        \A p \in DeferredPairs :
            ( /\ HasReceiver(p.before.sig)
              /\ ~IsSharedOwned(p.before.sig)
              /\ ~IsBorrowedImmutable(p.before.sig) ) =>
                /\ analyze_receiver(p.before.sig.inputs) = ReceiverBounds(TRUE, FALSE)
                /\ HasSendBound(p.after.sig)

(***************************************************************************)
(* C4.  With no directives and the threads feature off, an async method    *)
(* taking `&self` is rewritten with the `Self: Sync` constraint and        *)
(* without the Send bound.                                                 *)
(***************************************************************************)
C4_RefSelfDefaultOffSyncOnly ==
    (Succeeded /\ args = <<>> /\ ~threads) =>
        \A p \in DeferredPairs :
            IsBorrowedImmutable(p.before.sig) =>
                (GainedSelfSync(p) /\ ~HasSendBound(p.after.sig))

C4_Witness ==
    /\ Succeeded /\ args = <<>> /\ ~threads
    /\ \E p \in DeferredPairs :
          /\ IsBorrowedImmutable(p.before.sig)
          /\ p.after.sig.output = ReturnImplTrait(<<FutureBound("u32")>>)
          /\ p.after.sig.generics.predicates # <<>>
          /\ p.after.sig.generics.predicates[Len(p.after.sig.generics.predicates)] = SelfSync

(***************************************************************************)
(* C5.  As claimed: with the threads feature off and no directives, the    *)
(* async methods of a transformed trait get no bound at all, neither Send  *)
(* on the future nor `Self: Sync` on the implementing type; stated, as the *)
(* test states it, for methods taking `&self`.                             *)
(***************************************************************************)
C5_Original_NoBoundsWhenOff ==
    (Succeeded /\ input.form = "trait" /\ args = <<>> /\ ~threads) =>
        \A p \in DeferredPairs :
            IsBorrowedImmutable(p.before.sig) =>
                /\ ~HasSendBound(p.after.sig)
                /\ SameWhere(p)

(***************************************************************************)
(* C5, amended.  With the threads feature off and no directives, the       *)
(* configuration adds nothing to the async methods of a transformed trait; *)
(* what each gets is what its receiver alone calls for: a `&self` method   *)
(* gets no Send bound but does get `Self: Sync`, a method without a        *)
(* receiver gets neither, an Arc<Self> method gets both.                   *)
(***************************************************************************)
C5_OnlyInferredBoundsWhenOff ==
    (Succeeded /\ input.form = "trait" /\ args = <<>> /\ ~threads) =>
        \A p \in DeferredPairs :
            /\ IsBorrowedImmutable(p.before.sig) =>
                   (~HasSendBound(p.after.sig) /\ GainedSelfSync(p))
            /\ ~HasReceiver(p.before.sig) =>
                   (~HasSendBound(p.after.sig) /\ SameWhere(p))
            /\ IsSharedOwned(p.before.sig) =>
                   (HasSendBound(p.after.sig) /\ GainedSelfSync(p))

\* trait T { async fn m(&self) -> u32; async fn n() -> u32; } with the feature off
C5_Witness ==
    /\ Succeeded /\ input.form = "trait" /\ args = <<>> /\ ~threads
    /\ output.by = "ItemTrait"
    /\ \E p \in DeferredPairs :
          /\ IsBorrowedImmutable(p.before.sig)
          /\ ~HasSendBound(p.after.sig)
          /\ GainedSelfSync(p)
    /\ \E p \in DeferredPairs :
          /\ ~HasReceiver(p.before.sig)
          /\ SameWhere(p)

(***************************************************************************)
(* C6.  For a directive list in which every name is Send or Sync, each     *)
(* field of the resolved configuration is the value of the last directive  *)
(* naming that capability (on without `?`, off with it), or the feature    *)
(* default when none names it; so [A, ?A] resolves as [?A] does, and the   *)
(* empty list resolves to the default in both fields.                      *)
(***************************************************************************)
WellFormed(toks) == \A i \in 1..Len(toks) : toks[i].ident \in {"Send", "Sync"}

Naming(toks, cap) == { i \in 1..Len(toks) : toks[i].ident = cap }

LastDirective(toks, cap) ==
    CHOOSE i \in Naming(toks, cap) : \A j \in Naming(toks, cap) : j <= i

ExpectedValue(toks, cap) ==
    IF Naming(toks, cap) = {} THEN threads
    ELSE ~toks[LastDirective(toks, cap)].question

Enabled(cap) == [question |-> FALSE, ident |-> cap]
Disabled(cap) == [question |-> TRUE, ident |-> cap]

C6_LastDirectiveWins ==
    (pc # "config" /\ WellFormed(args)) =>
        /\ config.state = "ok"
        /\ config.send = ExpectedValue(args, "Send")
        /\ config.sync = ExpectedValue(args, "Sync")
        /\ args = <<>> => (config.send = threads /\ config.sync = threads)
        /\ \A cap \in {"Send", "Sync"} :
              args = <<Enabled(cap), Disabled(cap)>> =>
                  config = ResolveArgs(threads, <<Disabled(cap)>>)

\* #[bitte(Send, ?Send)] with the feature on resolves to send off, sync on.
C6_Witness ==
    /\ pc # "config"
    /\ threads
    /\ args = <<Enabled("Send"), Disabled("Send")>>
    /\ config = ConfigOk([send |-> FALSE, sync |-> TRUE])

(***************************************************************************)
(* C7.  If any directive, at any position, names something other than Send *)
(* or Sync, `bitte` returns the directive error and nothing else: no       *)
(* interpretation of the input is attempted and no declaration is          *)
(* produced, whatever the input is.                                        *)
(***************************************************************************)
HasUnknownDirective == \E i \in 1..Len(args) : args[i].ident \notin {"Send", "Sync"}

C7_UnknownDirectiveAborts ==
    (HasUnknownDirective /\ pc # "config") =>
        /\ pc = "done"
        /\ output = ConfigError
        /\ output.decl = NoDecl
        /\ tried = <<>>
        /\ config = ConfigUnset

\* #[bitte(Send, Teleport)] on a struct: the directive error, not the parse error.
C7_Witness ==
    /\ Finished
    /\ Len(args) = 2 /\ args[1].ident = "Send" /\ args[2].ident = "Teleport"
    /\ input.form = "struct"
    /\ output.status = "ConfigError"

(***************************************************************************)
(* C8.  With a valid directive list, `bitte` returns the parse error if    *)
(* and only if the input is none of trait, impl block, function, trait     *)
(* method; the error comes only after all four attempts were made, in      *)
(* order, and carries no declaration.                                      *)
(***************************************************************************)
AttemptOrder == <<"ItemTrait", "ItemImpl", "ItemFn", "TraitItemFn">>

MatchesSome ==
    \/ ParsesAsItemTrait(input)
    \/ ParsesAsItemImpl(input)
    \/ ParsesAsItemFn(input)
    \/ ParsesAsTraitItemFn(input)

C8_ParseErrorIffNoShape ==
    /\ (Finished /\ ~HasUnknownDirective) =>
          /\ output.status = "ParseError" <=> ~MatchesSome
          /\ output.status \in {"ParseError", "rewritten"}
    /\ output.status = "ParseError" =>
          /\ tried = AttemptOrder
          /\ output.decl = NoDecl

\* A struct, and a `pub fn` without a body: both end in the parse error.
C8_Witness ==
    /\ Finished
    /\ config.state = "ok"
    /\ input.form = "fn" /\ input.fn.vis = "pub" /\ ~input.fn.block.present
    /\ output = ParseError
    /\ tried = AttemptOrder

(***************************************************************************)
(* C9.  The interpretations are tried in the order trait, impl block,      *)
(* function, trait method, and the first that parses handles the input:    *)
(* the attempts made are exactly those up to the handling one, so an input *)
(* that parses both as a function and as a trait method is handled as a    *)
(* function and never as a trait method.                                   *)
(***************************************************************************)
Parses(shape) ==
    CASE shape = "ItemTrait" -> ParsesAsItemTrait(input)
      [] shape = "ItemImpl" -> ParsesAsItemImpl(input)
      [] shape = "ItemFn" -> ParsesAsItemFn(input)
      [] shape = "TraitItemFn" -> ParsesAsTraitItemFn(input)

C9_FirstMatchHandles ==
    /\ \E k \in 0..Len(AttemptOrder) : tried = SubSeq(AttemptOrder, 1, k)
    /\ Succeeded =>
          /\ tried # <<>>
          /\ output.by = tried[Len(tried)]
          /\ Parses(output.by)
          /\ \A k \in 1..(Len(tried) - 1) : ~Parses(tried[k])
    /\ (pc \notin {"config", "done"}) => \A k \in 1..Len(tried) : ~Parses(tried[k])

\* `async fn m(&self) -> u32 { .. }`: a function and a trait method; taken as a function.
C9_Witness ==
    /\ Succeeded
    /\ ParsesAsItemFn(input) /\ ParsesAsTraitItemFn(input)
    /\ output.by = "ItemFn"
    /\ tried = <<"ItemTrait", "ItemImpl", "ItemFn">>

(***************************************************************************)
(* C10.  An async method that has a body comes out with that body wrapped  *)
(* as one `async move` block: in an impl block, as a default method of a   *)
(* trait, and as a default method annotated on its own.  (Stated as        *)
(* claimed; a method annotated on its own keeps its body as written.)      *)
(***************************************************************************)
IsMethodEntry(p) ==
    \/ p.at > 0
    \/ (p.before.vis = "" /\ HasReceiver(p.before.sig))

C10_DeferredBodyIsWrapped ==
    Succeeded =>
        \A p \in DeferredPairs :
            (IsMethodEntry(p) /\ p.before.block.present) =>
                p.after.block = Block(<<AsyncMove(p.before.block.stmts)>>)

(***************************************************************************)
(* C11.  A method of a trait that carries its own #[bitte(..)] ends with   *)
(* the bounds of its own directive list, OR-ed with what its receiver      *)
(* calls for, also when the trait itself is under a #[bitte(..)] with      *)
(* another configuration that is expanded first.  (Stated as claimed; the  *)
(* trait's expansion rewrites the method with the trait's configuration    *)
(* and the method's own expansion then finds nothing left to rewrite.)     *)
(***************************************************************************)
FullyExpanded == Succeeded /\ PendingItems = {}

OwnDirectives(item) == item.attrs[FirstBitteAttr(item.attrs)].directives

C11_OwnDirectivesDecide ==
    FullyExpanded =>
        \A p \in DeferredPairs :
            BitteAttrsOf(p.before.attrs) # {} =>
                LET own == ResolveArgs(threads, OwnDirectives(p.before))
                    rb == analyze_receiver(p.before.sig.inputs)
                IN  /\ HasSendBound(p.after.sig) <=> (own.send \/ rb.needs_send)
                    /\ GainedSelfSync(p) <=> (own.sync \/ rb.needs_sync)

(***************************************************************************)
(* C12.  In a transformed trait or impl block every item that is not an    *)
(* `async fn` stands in the output at the same position exactly as it was  *)
(* in the input (signature, attributes, body), whatever the configuration  *)
(* and whatever the other items are.                                       *)
(***************************************************************************)
IsDeferredItem(item) == item.tag = "Fn" /\ item.sig.asyncness

C12_OtherItemsUntouched ==
    (Succeeded /\ input.form \in {"trait", "impl"}) =>
        /\ output.decl.form = input.form
        /\ Len(output.decl.items) = Len(input.items)
        /\ \A i \in 1..Len(input.items) :
              ~IsDeferredItem(input.items[i]) => output.decl.items[i] = input.items[i]

\* A rewritten `async fn` followed by a plain `fn` with a body, left as written.
C12_Witness ==
    /\ Succeeded /\ input.form = "trait"
    /\ Len(input.items) = 2
    /\ IsDeferredItem(input.items[1])
    /\ output.decl.items[1] # input.items[1]
    /\ input.items[2].tag = "Fn" /\ ~input.items[2].sig.asyncness
    /\ input.items[2].block.present
    /\ output.decl.items[2] = input.items[2]

(***************************************************************************)
(* C13.  `bitte` returns either an error and no declaration, or a whole    *)
(* declaration in which every function or method that was `async` on input *)
(* has been rewritten and none is `async` any more; before it returns      *)
(* there is no output.                                                     *)
(***************************************************************************)
IsRewrittenSig(sig) == ~sig.asyncness /\ sig.output.kind = "ImplTrait"

C13_AllOrNothing ==
    /\ ~Finished => output = Pending
    /\ Finished =>
          \/ /\ output.status \in {"ConfigError", "ParseError"}
             /\ output.decl = NoDecl
          \/ /\ output.status = "rewritten"
             /\ output.decl.form = input.form
             /\ Len(output.decl.items) = Len(input.items)
             /\ \A p \in MethodPairs :
                   /\ ~p.after.sig.asyncness
                   /\ p.before.sig.asyncness => IsRewrittenSig(p.after.sig)

\* An impl block of two `async fn`: both rewritten.
C13_Witness ==
    /\ Succeeded /\ input.form = "impl"
    /\ Len(input.items) = 2
    /\ \A i \in 1..2 :
          /\ IsDeferredItem(input.items[i])
          /\ IsRewrittenSig(output.decl.items[i].sig)

(***************************************************************************)
(* C14.  The return type of a rewritten signature is `impl Future` whose   *)
(* Output is the declared return type, or `()` when none was declared; it  *)
(* is the first bound and the only Future bound.                           *)
(***************************************************************************)
DeclaredOutput(sig) == IF sig.output.kind = "Default" THEN "()" ELSE sig.output.name

C14_FutureOfDeclaredType ==
    Succeeded =>
        \A p \in DeferredPairs :
            LET bounds == p.after.sig.output.bounds
            IN  /\ p.after.sig.output.kind = "ImplTrait"
                /\ bounds # <<>>
                /\ bounds[1] = FutureBound(DeclaredOutput(p.before.sig))
                /\ \A k \in 2..Len(bounds) : bounds[k].trait # "Future"

\* `async fn m(..) -> u32` becomes `-> impl Future<Output = u32>`.
C14_Witness ==
    /\ Succeeded
    /\ \E p \in DeferredPairs :
          /\ p.before.sig.output = ReturnNamed("u32")
          /\ p.after.sig.output.bounds[1] = FutureBound("u32")

(***************************************************************************)
(* C15.  Rewriting leaves the name, the parameters and the generic         *)
(* parameters of a signature as they were.  When `Self: Sync` is required  *)
(* (by the configuration or by the receiver) the where clause afterwards   *)
(* is the one before with exactly `Self: Sync` added at its end; when it   *)
(* is not required the where clause is as it was.                          *)
(***************************************************************************)
C15_SignatureFrame ==
    Succeeded =>
        \A p \in DeferredPairs :
            LET before == p.before.sig
                after == p.after.sig
                required == config.sync \/ IsSharedOwned(before)
                                        \/ IsBorrowedImmutable(before)
            IN  /\ after.ident = before.ident
                /\ after.inputs = before.inputs
                /\ after.generics.params = before.generics.params
                /\ required =>
                      /\ after.generics.where_present
                      /\ Len(after.generics.predicates) =
                             Len(before.generics.predicates) + 1
                      /\ SubSeq(after.generics.predicates, 1,
                                Len(before.generics.predicates)) =
                             before.generics.predicates
                      /\ after.generics.predicates[Len(after.generics.predicates)] =
                             SelfSync
                /\ ~required => after.generics = before.generics

\* `async fn m<T>(&self) where T: Clone` gains `Self: Sync` after `T: Clone`.
C15_Witness ==
    /\ Succeeded
    /\ \E p \in DeferredPairs :
          /\ p.before.sig.generics = Generics(<<"T">>, TRUE, <<"T: Clone">>)
          /\ p.after.sig.generics = Generics(<<"T">>, TRUE, <<"T: Clone", SelfSync>>)

(***************************************************************************)
(* C16.  A lone `async` trait method given to `bitte` comes back with      *)
(* `#[must_use]` and an `#[allow(..)]` appended: the wide lint set exactly *)
(* when the method has a default body, the narrow set when it has none.    *)
(* A lone function or trait method that is not `async` comes back as it    *)
(* was given.                                                              *)
(***************************************************************************)
IsLoneMethodEntry ==
    /\ input.form = "fn"
    /\ input.fn.vis = ""
    /\ (HasReceiver(input.fn.sig) \/ ~input.fn.block.present)

C16_LoneMethodAttributes ==
    (Succeeded /\ input.form = "fn") =>
        /\ (IsLoneMethodEntry /\ input.fn.sig.asyncness) =>
              output.decl.fn.attrs =
                  input.fn.attrs \o <<MustUse,
                                      IF input.fn.block.present
                                      THEN AllowWide ELSE AllowNarrow>>
        /\ ~input.fn.sig.asyncness => output.decl = input

(***************************************************************************)
(* C17.  In every declaration `bitte` returns, whichever item form handled *)
(* it, a function or method that had a body has that body wrapped in       *)
(* `async move { .. }` exactly when its signature was rewritten, and has   *)
(* the body it was given otherwise.                                        *)
(***************************************************************************)
C17_WrappedIffRewritten ==
    Succeeded =>
        \A p \in MethodPairs :
            p.before.block.present =>
                IF p.after.sig # p.before.sig
                THEN p.after.block = WrapAsyncMove(p.before.block)
                ELSE p.after.block = p.before.block

(***************************************************************************)
(* C18.  Given the declaration it returned, under any argument list of     *)
(* known capabilities, `bitte` succeeds through the same item form and     *)
(* returns that declaration unchanged.                                     *)
(***************************************************************************)
Reapplied == pc = "reapplied"

C18_Idempotent ==
    Reapplied =>
        /\ output.status = "rewritten"
        /\ output.decl = input
        /\ output.by = tried[Len(tried)]

\* An impl block whose method was rewritten and wrapped by the first invocation is
\* given back under `Send, Sync` and returned as it is.
C18_Witness ==
    /\ Reapplied
    /\ args = <<[question |-> FALSE, ident |-> "Send"],
               [question |-> FALSE, ident |-> "Sync"]>>
    /\ input.form = "impl"
    /\ \E i \in 1..Len(input.items) :
          /\ input.items[i].tag = "Fn"
          /\ IsRewrittenSig(input.items[i].sig)
          /\ ~HasSendBound(input.items[i].sig)
          /\ input.items[i].block.present
    /\ output.decl = input

====
